---------------------------- MODULE Spec2Model ----------------------------
(***************************************************************************)
(* Font resolution and subset caching engine of webfont-zh.               *)
(*                                                                         *)
(*   utils.rs    generate_cache_filename   (the cache key deriver)         *)
(*   service.rs  FontService               (walker, cache store)          *)
(*   font.rs     FontProcessor             (coverage, subsetting)          *)
(*                                                                         *)
(* Three specifications share the variables:                               *)
(*   SpecKey   the cache key deriver applied to bounded requests           *)
(*   SpecWalk  generate_font / generate_font_by_id over many registries    *)
(*   Spec      the cache-first service with concurrent request tasks,      *)
(*             fallible file I/O and the background sweep                  *)
(***************************************************************************)
EXTENDS Naturals, Sequences, FiniteSets, TLC

VARIABLES
    kd_codepoints,   \* utils.rs: the slice handed to generate_cache_filename
    kd_filename,     \* utils.rs: the String it returned (<<>> before the call)
    fonts,           \* FontService.fonts: identity -> FontConfig
    processors,      \* FontService.processors: "id:family" -> FontProcessor
    service,         \* what FontService::new returned (NoValue before it has)
    disk,            \* files under static_dir: <<font_id, filename>> -> content
    pc,              \* per task: position in the handler it runs
    req,             \* per task: the call it serves (op, font_id, codepoints)
    cache_filename,  \* per task: get_cached_font's local cache_filename
    woff2_data,      \* per task: get_cached_font's local woff2_data
    stack,           \* per task: frames of generate_font_by_id in progress
    pending,         \* per task: fonts.values() entries generate_font has left
    result,          \* per task: what the finished call returned
    hist,            \* per task: observations of the running call (history)
    started,         \* number of calls started so far (bounded)
    regen,           \* per task: the regenerate_font call it serves and its loop
    params,          \* per task: the query of the HTTP request it handles
    tree,            \* data_dir/fonts as load_fonts found it (dirs, faces)
    now,             \* the system clock, in seconds
    jan              \* the cleanup task: where its sweep stands

kdvars  == <<kd_codepoints, kd_filename>>
regvars == <<fonts, processors, service>>
taskvars == <<pc, req, cache_filename, woff2_data, stack, pending, result, hist, regen,
              params>>
envvars == <<tree, now>>
vars == <<kd_codepoints, kd_filename, fonts, processors, service, disk, pc, req,
          cache_filename, woff2_data, stack, pending, result, hist, started,
          regen, params, tree, now, jan>>

---------------------------------------------------------------------------
(* Bounds of the model *)

MaxCodePoint == 12     \* key deriver: code points are 0..MaxCodePoint
MaxLen == 2            \* key deriver: requests hold 1..MaxLen code points
MaxDepth == 4          \* walker: generate_font_by_id frames a task may stack up
MaxRequests == 3       \* service: calls started in one behaviour
MaxDays == 1           \* cleanup task: days the clock advances in one behaviour
MaxDirs == 3           \* loader: directories under data_dir/fonts
MaxChars == 2          \* handlers: characters of the `char` query parameter
MaxApiRequests == 1    \* handlers: HTTP requests handled in one behaviour

Tasks == {"t1", "t2"}

---------------------------------------------------------------------------
(* utils.rs: generate_cache_filename.  A String is the sequence of its     *)
(* characters, so that a file name can be taken apart again.               *)

SeqToSet(s) == {s[i] : i \in 1..Len(s)}

S_cache == <<"c", "a", "c", "h", "e", "/">>
S_woff2 == <<".", "w", "o", "f", "f", "2">>
S_comma == <<",">>

RECURSIVE Insert(_, _)
Insert(x, s) ==
    IF s = <<>> THEN <<x>>
    ELSE IF x <= Head(s) THEN <<x>> \o s
    ELSE <<Head(s)>> \o Insert(x, Tail(s))

RECURSIVE SortUnstable(_)
\* slice::sort_unstable on u32: the ascending rearrangement (equal elements
\* are indistinguishable, so instability is not observable)
SortUnstable(s) ==
    IF s = <<>> THEN <<>> ELSE Insert(Head(s), SortUnstable(Tail(s)))

Digit(d) ==
    CASE d = 0 -> "0" [] d = 1 -> "1" [] d = 2 -> "2" [] d = 3 -> "3"
      [] d = 4 -> "4" [] d = 5 -> "5" [] d = 6 -> "6" [] d = 7 -> "7"
      [] d = 8 -> "8" [] d = 9 -> "9"

RECURSIVE U32ToString(_)
\* u32::to_string / format!("{}", n): decimal digits, no sign, no padding
U32ToString(n) ==
    IF n < 10 THEN <<Digit(n)>> ELSE U32ToString(n \div 10) \o <<Digit(n % 10)>>

RECURSIVE Join(_, _)
\* Vec<String>::join(sep)
Join(strs, sep) ==
    IF strs = <<>> THEN <<>>
    ELSE IF Len(strs) = 1 THEN strs[1]
    ELSE strs[1] \o sep \o Join(Tail(strs), sep)

MapToString(s) == [i \in 1..Len(s) |-> U32ToString(s[i])]

\* mutant: the to_vec copy is never sorted
GenerateCacheFilenameUnsorted(codepoints) ==
    IF Len(codepoints) = 1
    THEN U32ToString(codepoints[1]) \o S_woff2
    ELSE S_cache \o Join(MapToString(codepoints), S_comma) \o S_woff2

\* mutant: a request that repeats one value is filed as that value alone
GenerateCacheFilenameDistinct(codepoints) ==
    LET sorted_codepoints == SortUnstable(codepoints) IN
    IF Cardinality(SeqToSet(sorted_codepoints)) = 1
    THEN U32ToString(sorted_codepoints[1]) \o S_woff2
    ELSE S_cache \o Join(MapToString(sorted_codepoints), S_comma) \o S_woff2

\* mutant: every request, single or not, is filed under cache/
GenerateCacheFilenameAlwaysCache(codepoints) ==
    LET sorted_codepoints == SortUnstable(codepoints) IN
    S_cache \o Join(MapToString(sorted_codepoints), S_comma) \o S_woff2

generate_cache_filename(codepoints) ==
    LET sorted_codepoints == SortUnstable(codepoints) IN
    IF Len(sorted_codepoints) = 1
    THEN U32ToString(sorted_codepoints[1]) \o S_woff2
    ELSE S_cache \o Join(MapToString(sorted_codepoints), S_comma) \o S_woff2

---------------------------------------------------------------------------
(* The key deriver on its own: requests of 1..MaxLen code points           *)

BoundedSeqs(S, n) == UNION {[1..k -> S] : k \in 1..n}

\* the requests of utils.rs's unit test, beside the bounded ones
TestRequests == {<<40339>>, <<40341, 40339, 40340>>}

KeyRequests == BoundedSeqs(0..MaxCodePoint, MaxLen) \cup TestRequests

DeriveKey ==
    /\ kd_filename = <<>>
    /\ kd_filename' = generate_cache_filename(kd_codepoints)
    /\ UNCHANGED kd_codepoints

---------------------------------------------------------------------------
(* error.rs AppError and the results of the operations *)

\* Result<Vec<u8>, AppError> (and "None" where no value has come back yet)
Ok(data) == [kind |-> "Ok", data |-> data]
CharacterNotFound(cp) == [kind |-> "CharacterNotFound", cp |-> cp]
FontNotFound(id) == [kind |-> "FontNotFound", id |-> id]
InternalError == [kind |-> "InternalError"]
ConfigError(msg) == [kind |-> "ConfigError", msg |-> msg]
IoError == [kind |-> "IoError"]
\* Ok(()) of Result<(), AppError>
OkUnit == [kind |-> "Ok"]
NoValue == [kind |-> "None"]
\* no bytes (a local not yet assigned)
NoData == [file |-> ""]
IsOk(r) == r.kind = "Ok"
\* anyhow::Error, as load_from_dir returns it
AnyhowError(cause) == [kind |-> "Error", cause |-> cause]

---------------------------------------------------------------------------
(* utils.rs: parse_codepoints *)

\* std::num::ParseIntError
ParseIntError == [kind |-> "ParseIntError"]

\* u32::MAX, in digits (4294967295)
U32MaxDigits == <<"4", "2", "9", "4", "9", "6", "7", "2", "9", "5">>

\* char::is_whitespace, of the characters the model uses
IsWhitespace(c) == c = " "

RECURSIVE TrimStart(_)
TrimStart(str) ==
    IF str # <<>> /\ IsWhitespace(Head(str)) THEN TrimStart(Tail(str)) ELSE str

RECURSIVE TrimEnd(_)
TrimEnd(str) ==
    IF str # <<>> /\ IsWhitespace(str[Len(str)])
    THEN TrimEnd(SubSeq(str, 1, Len(str) - 1))
    ELSE str

\* str::trim
trim(str) == TrimEnd(TrimStart(str))

RECURSIVE split(_, _, _)
\* str::split(pat): the pieces between the occurrences of pat, at least one
split(str, pat, piece) ==
    IF str = <<>> THEN <<piece>>
    ELSE IF Head(str) = pat THEN <<piece>> \o split(Tail(str), pat, <<>>)
    ELSE split(Tail(str), pat, Append(piece, Head(str)))

IsAsciiDigit(c) == \E d \in 0..9 : Digit(d) = c

\* char::to_digit(10)
ToDigit(c) == CHOOSE d \in 0..9 : Digit(d) = c

RECURSIVE StripZeros(_)
StripZeros(digits) ==
    IF digits # <<>> /\ Head(digits) = "0" THEN StripZeros(Tail(digits)) ELSE digits

RECURSIVE Greater(_, _)
\* of two numerals of equal length, the first is the greater number
Greater(a, b) ==
    IF a = <<>> THEN FALSE
    ELSE IF ToDigit(Head(a)) # ToDigit(Head(b)) THEN ToDigit(Head(a)) > ToDigit(Head(b))
    ELSE Greater(Tail(a), Tail(b))

\* checked_mul / checked_add fail while the digits are read: the number
\* exceeds u32::MAX (leading zeros do not count)
Overflows(digits) ==
    LET numeral == StripZeros(digits) IN
    \/ Len(numeral) > Len(U32MaxDigits)
    \/ Len(numeral) = Len(U32MaxDigits) /\ Greater(numeral, U32MaxDigits)

RECURSIVE FromDigits(_, _)
\* result = result * 10 + digit, from the left
FromDigits(digits, value) ==
    IF digits = <<>> THEN value
    ELSE FromDigits(Tail(digits), value * 10 + ToDigit(Head(digits)))

\* str::parse::<u32>: digits after an optional '+'; an empty string, a
\* character that is no digit and a number above u32::MAX are errors
parse_u32(str) ==
    LET digits == IF str # <<>> /\ Head(str) = "+" THEN Tail(str) ELSE str IN
    IF \/ digits = <<>>
       \/ \E i \in DOMAIN digits : ~IsAsciiDigit(digits[i])
       \/ Overflows(digits)
    THEN ParseIntError
    ELSE Ok(FromDigits(digits, 0))

\* mutant: an item that does not parse is left out
ParseCodepointsSkipsBad(chars_str) ==
    LET items == split(chars_str, ",", <<>>)
        parsed == [i \in DOMAIN items |-> parse_u32(trim(items[i]))]
        good == SelectSeq(parsed, IsOk)
    IN  IF good = <<>> THEN ParseIntError
        ELSE Ok([i \in DOMAIN good |-> good[i].data])

\* pub fn parse_codepoints: collect() into a Result is the first Err, or the
\* Vec of all the values
parse_codepoints(chars_str) ==
    LET items == split(chars_str, ",", <<>>)
        parsed == [i \in DOMAIN items |-> parse_u32(trim(items[i]))]
    IN  IF \E i \in DOMAIN items : ~IsOk(parsed[i])
        THEN ParseIntError
        ELSE Ok([i \in DOMAIN items |-> parsed[i].data])

---------------------------------------------------------------------------
(* config.rs FontConfig / FontFile, font.rs FontProcessor, and the maps    *)
(* load_fonts builds.  An identity, a family name and a file path are      *)
(* strings; a loaded face is known by the file it was read from and the    *)
(* code points it has a glyph for.                                         *)

FontFile(path, font_family) == [path |-> path, font_family |-> font_family]

FontConfig(id, files, fallback) == [id |-> id, files |-> files, fallback |-> fallback]

\* font_dir.join(&font_file.path), relative to data_dir/fonts
FontPath(id, path) == id \o "/" \o path

\* a directory of data_dir/fonts as WalkDir yields it (entries that are in
\* error or are no directories are filtered out, lines 60-61), and what
\* read_to_string finds at its config.json
DirEntry(name, descriptor) == [name |-> name, descriptor |-> descriptor]

\* std::fs::read_to_string(config_path): an error, or the text of the file
NoFile == [io |-> "NotFound"]
NoAccess == [io |-> "PermissionDenied"]
Content(text) == [io |-> "Ok", text |-> text]

\* a text is JSON or is not; of a JSON text the model keeps the top-level
\* object, as a function of its keys
NotJson == [syntax |-> FALSE]
JsonObject(fields) == [syntax |-> TRUE, fields |-> fields]

\* #[derive(Deserialize)] struct FontConfig: every field is required
RequiredKeys == {"id", "version", "font_family", "fallback", "license", "files"}

\* serde_json::from_str::<FontConfig>: unknown keys are ignored
from_str(text) ==
    IF text.syntax /\ RequiredKeys \subseteq DOMAIN text.fields
    THEN Ok(FontConfig(text.fields["id"], text.fields["files"], text.fields["fallback"]))
    ELSE AnyhowError("serde_json")

\* FontConfig::load_from_dir
load_from_dir(font_dir) ==
    IF font_dir.descriptor.io # "Ok"
    THEN AnyhowError(font_dir.descriptor.io)
    ELSE from_str(font_dir.descriptor.text)

\* serde_json::to_string_pretty(self); the fields the model does not follow
\* are written with a fixed value
to_string_pretty(config) ==
    JsonObject([id |-> config.id, version |-> "1", font_family |-> config.id,
                fallback |-> config.fallback, license |-> "OFL", files |-> config.files])

\* FontConfig::save_to_dir into the directory named by the identity
save_to_dir(config) == DirEntry(config.id, Content(to_string_pretty(config)))

\* format!("{}:{}", font_config.id, font_file.font_family)
ProcessorKey(font_id, font_family) == font_id \o ":" \o font_family

\* FontProcessor::new on a file that exists and parses
FontProcessor(file, cmap) == [file |-> file, cmap |-> cmap]

Put(m, k, v) == [x \in DOMAIN m \cup {k} |-> IF x = k THEN v ELSE m[x]]

RECURSIVE InsertProcessors(_, _, _, _, _)
\* the loop over font_config.files in load_fonts: a file that is missing or
\* does not parse is logged and inserts nothing; an equal key is replaced
InsertProcessors(procs, font_dir, config, i, faces) ==
    IF i > Len(config.files) THEN procs
    ELSE LET font_file == config.files[i]
             font_path == FontPath(font_dir, font_file.path)
             key == ProcessorKey(config.id, font_file.font_family)
         IN  InsertProcessors(
                 IF font_path \in DOMAIN faces
                 THEN Put(procs, key, FontProcessor(font_path, faces[font_path]))
                 ELSE procs,
                 font_dir, config, i + 1, faces)

RECURSIVE LoadProcessors(_, _, _)
\* load_fonts over the font directories in WalkDir order: the processors
\* map; a directory whose descriptor does not load is logged and skipped
LoadProcessors(procs, dirs, faces) ==
    IF dirs = <<>> THEN procs
    ELSE LET font_config == load_from_dir(Head(dirs)) IN
         LoadProcessors(IF IsOk(font_config)
                        THEN InsertProcessors(procs, Head(dirs).name, font_config.data, 1, faces)
                        ELSE procs,
                        Tail(dirs), faces)

RECURSIVE LoadConfigsAborts(_, _)
\* mutant: the first descriptor that does not load ends the loop
LoadConfigsAborts(map, dirs) ==
    IF dirs = <<>> THEN map
    ELSE LET font_config == load_from_dir(Head(dirs)) IN
         IF IsOk(font_config)
         THEN LoadConfigsAborts(Put(map, font_config.data.id, font_config.data), Tail(dirs))
         ELSE map

RECURSIVE LoadConfigs(_, _)
\* load_fonts over the font directories in WalkDir order: the fonts map; a
\* directory whose descriptor does not load is logged and skipped
LoadConfigs(map, dirs) ==
    IF dirs = <<>> THEN map
    ELSE LET font_config == load_from_dir(Head(dirs)) IN
         LoadConfigs(IF IsOk(font_config)
                     THEN Put(map, font_config.data.id, font_config.data)
                     ELSE map,
                     Tail(dirs))

EmptyMap == [x \in {} |-> {}]

---------------------------------------------------------------------------
(* font.rs: coverage, subsetting, transcoding *)

\* char::from_u32: a scalar value, i.e. no surrogate and at most 0x10FFFF
IsChar(cp) == (cp < 55296) \/ (cp > 57343 /\ cp <= 1114111)

contains_char(processor, codepoint) ==
    IsChar(codepoint) /\ codepoint \in processor.cmap

get_available_chars(processor, codepoints) ==
    SelectSeq(codepoints, LAMBDA cp : contains_char(processor, cp))

\* create_subset: the face reduced to the glyphs of the given characters
\* (Subset::add_chars fills a set: order and repetition do not matter)
create_subset(processor, chars) ==
    [file |-> processor.file, glyphs |-> SeqToSet(chars), container |-> "ttf", whole |-> TRUE]

subset_font(processor, codepoints) ==
    LET available_chars == SelectSeq(codepoints, LAMBDA cp : contains_char(processor, cp))
    IN  IF available_chars = <<>>
        THEN InternalError
        ELSE Ok(create_subset(processor, available_chars))

\* woff::version2::compress is a function of its input; the model takes it to
\* succeed (its None branch returns the ttf bytes, Ok as well)
ttf_to_woff2(ttf_data) == Ok([ttf_data EXCEPT !.container = "woff2"])

generate_woff2(processor, codepoints) ==
    LET ttf_data == subset_font(processor, codepoints)
    IN  IF IsOk(ttf_data) THEN ttf_to_woff2(ttf_data.data) ELSE ttf_data


---------------------------------------------------------------------------
(* service.rs: generate_font_by_id, one frame per call in progress.        *)
(* A frame is [font_id, fb]: fb = 0 before the loop over the font's files, *)
(* then the 1-based position in font_config.fallback being awaited.        *)

Frame(font_id) == [font_id |-> font_id, fb |-> 0]

Top(stk) == stk[Len(stk)]

RECURSIVE ConsultedKeys(_, _, _, _, _)
\* lines 148-154: the keys of the processors the loop over the files asks
\* for get_available_chars, which are those up to the first that returns Ok
ConsultedKeys(procs, font_id, files, i, codepoints) ==
    IF i > Len(files) THEN {}
    ELSE LET key == ProcessorKey(font_id, files[i].font_family) IN
         IF key \in DOMAIN procs
         THEN {key} \cup
              (IF get_available_chars(procs[key], codepoints) # <<>>
                  /\ IsOk(generate_woff2(procs[key], get_available_chars(procs[key], codepoints)))
               THEN {}
               ELSE ConsultedKeys(procs, font_id, files, i + 1, codepoints))
         ELSE ConsultedKeys(procs, font_id, files, i + 1, codepoints)

\* mutant: the error carries the last code point of the request
LastRequested(codepoints) == codepoints[Len(codepoints)]

\* codepoints[0] of lines 136 and 169
FirstRequested(codepoints) == codepoints[1]

RECURSIVE TryFilesFromLast(_, _, _, _, _)
\* mutant: the files are tried from the last declared to the first
TryFilesFromLast(procs, font_id, files, i, codepoints) ==
    IF i > Len(files) THEN NoValue
    ELSE LET later == TryFilesFromLast(procs, font_id, files, i + 1, codepoints)
             key == ProcessorKey(font_id, files[i].font_family)
         IN  IF IsOk(later) THEN later
             ELSE IF key \in DOMAIN procs
                     /\ get_available_chars(procs[key], codepoints) # <<>>
             THEN generate_woff2(procs[key], get_available_chars(procs[key], codepoints))
             ELSE NoValue

RECURSIVE TryFiles(_, _, _, _, _)
\* lines 148-159: the first file, in declared order, whose processor is
\* loaded, covers some requested code point and subsets successfully
TryFiles(procs, font_id, files, i, codepoints) ==
    IF i > Len(files) THEN NoValue
    ELSE LET key == ProcessorKey(font_id, files[i].font_family) IN
         IF key \in DOMAIN procs
         THEN LET available_chars == get_available_chars(procs[key], codepoints) IN
              IF available_chars # <<>>
              THEN LET woff2 == generate_woff2(procs[key], available_chars) IN
                   IF IsOk(woff2) THEN woff2
                   ELSE TryFiles(procs, font_id, files, i + 1, codepoints)
              ELSE TryFiles(procs, font_id, files, i + 1, codepoints)
         ELSE TryFiles(procs, font_id, files, i + 1, codepoints)

\* the innermost call returns v: its frame is popped; the caller (lines
\* 163-166) returns an Ok at once and otherwise moves to its next fallback.
\* value is what the outermost call returned, NoValue while one still runs.
AfterReturn(stk, v) ==
    LET callers == SubSeq(stk, 1, Len(stk) - 1) IN
    IF callers = <<>> \/ IsOk(v)
    THEN [stack |-> <<>>, value |-> v]
    ELSE [stack |-> [callers EXCEPT ![Len(callers)].fb = @ + 1], value |-> NoValue]

---------------------------------------------------------------------------
(* Task state *)

NoReq == [op |-> "none", named |-> FALSE, font_id |-> "", codepoints |-> <<>>]

\* no regenerate_font call: its arguments (font_id "" for None) and the
\* position i of its loop over codepoints
NoRegen == [named |-> FALSE, font_id |-> "", codepoints |-> <<>>, i |-> 0]

\* what is observed of the call a task runs (history, read by the properties)
NoHist == [engine |-> FALSE,      \* generate_woff2 was invoked
           depth  |-> 0,          \* deepest nesting of generate_font_by_id
           hit    |-> FALSE,      \* cache_path.exists() answered true
           read   |-> "none",     \* tokio::fs::read: none | ok | failed | gone
           gen    |-> NoValue,    \* what generate_font returned
           mkdir  |-> "none",     \* create_dir_all: none | ok | failed
           write  |-> "none",     \* tokio::fs::write: none | ok | failed
           expect |-> NoData,     \* artifact stored at the key when called
           at_key |-> NoData,     \* regenerate_font(Some(..)) returned Ok: what
                                  \* the file at the key of its request held
           guards |-> {},         \* RwLock guards held when generate_woff2 was invoked
           consulted |-> {},      \* processors asked for get_available_chars
           attempts |-> <<>>,     \* regenerate_font(None): identities tried
           failures |-> {}]       \* regenerate_font(None): those that failed

\* static_dir.join(font_id).join(&cache_filename): Path splits at '/'
RECURSIVE Components(_, _)
Components(str, acc) ==
    IF str = <<>> THEN <<acc>>
    ELSE IF Head(str) = "/" THEN <<acc>> \o Components(Tail(str), <<>>)
    ELSE Components(Tail(str), Append(acc, Head(str)))

CachePath(font_id, filename) == <<font_id>> \o Components(filename, <<>>)

TaskPath(t) == CachePath(req[t].font_id, cache_filename[t])

\* what a read of the file at path would return on disk d (NoData: no file)
Stored(d, path) ==
    IF path \in DOMAIN d
    THEN IF d[path].complete THEN d[path].data ELSE [d[path].data EXCEPT !.whole = FALSE]
    ELSE NoData

\* mutant: an Err of one font ends the loop over fonts.keys() as well
RegenReturnsAborts(t, v, h, d) ==
    IF regen[t].named \/ ~IsOk(v)
    THEN /\ pc' = [pc EXCEPT ![t] = "done"]
         /\ result' = [result EXCEPT ![t] = v]
         /\ hist' = [hist EXCEPT ![t] = h]
    ELSE /\ pc' = [pc EXCEPT ![t] = "rg_fonts"]
         /\ hist' = [hist EXCEPT ![t] = h]
         /\ UNCHANGED result

\* regenerate_font(Some(id), codepoints) of task t returns v, the files being
\* d.  Called with an identity (line 209) that is the result of the call;
\* called from the loop over fonts.keys() (lines 227-230) an Err is logged
\* and the loop goes on.
RegenReturns(t, v, h, d) ==
    IF regen[t].named
    THEN /\ pc' = [pc EXCEPT ![t] = "done"]
         /\ result' = [result EXCEPT ![t] = v]
         /\ hist' = [hist EXCEPT ![t] =
                [h EXCEPT !.at_key =
                    IF IsOk(v)
                    THEN Stored(d, CachePath(regen[t].font_id,
                                             generate_cache_filename(regen[t].codepoints)))
                    ELSE NoData]]
    ELSE /\ pc' = [pc EXCEPT ![t] = "rg_fonts"]
         /\ hist' = [hist EXCEPT ![t] =
                [h EXCEPT !.failures = IF IsOk(v) THEN @ ELSE @ \cup {req[t].font_id}]]
         /\ UNCHANGED result

\* generate_font returned v to the operation task t runs.
\* get_cached_font line 189 and regenerate_font line 212: an Err leaves
\* through `?`, an Ok goes on to the cache write.
GenerateFontReturns(t, v, h) ==
    /\ stack' = [stack EXCEPT ![t] = <<>>]
    /\ IF req[t].op = "get_cached_font" /\ IsOk(v)
       THEN /\ pc' = [pc EXCEPT ![t] = "gcf_mkdir"]
            /\ woff2_data' = [woff2_data EXCEPT ![t] = v.data]
            /\ hist' = [hist EXCEPT ![t] = [h EXCEPT !.gen = v]]
            /\ UNCHANGED result
       ELSE IF req[t].op = "regenerate_font"
       THEN IF IsOk(v)
            THEN /\ pc' = [pc EXCEPT ![t] = "rg_mkdir"]
                 /\ woff2_data' = [woff2_data EXCEPT ![t] = v.data]
                 /\ hist' = [hist EXCEPT ![t] = [h EXCEPT !.gen = v]]
                 /\ UNCHANGED result
            ELSE /\ RegenReturns(t, v, [h EXCEPT !.gen = v], disk)
                 /\ UNCHANGED woff2_data
       ELSE /\ pc' = [pc EXCEPT ![t] = "done"]
            /\ result' = [result EXCEPT ![t] = v]
            /\ hist' = [hist EXCEPT ![t] = [h EXCEPT !.gen = v]]
            /\ UNCHANGED woff2_data

\* the innermost generate_font_by_id of task t returns v.  When that was the
\* outermost call, generate_font (lines 124-134) returns it if an identity
\* was named or it is Ok, and otherwise goes on with fonts.values().
ByIdReturns(t, v, h) ==
    LET a == AfterReturn(stack[t], v) IN
    IF a.value = NoValue
    THEN /\ stack' = [stack EXCEPT ![t] = a.stack]
         /\ hist' = [hist EXCEPT ![t] = h]
         /\ UNCHANGED <<pc, result, woff2_data, pending>>
    ELSE IF req[t].named \/ IsOk(a.value)
    THEN GenerateFontReturns(t, a.value, h) /\ UNCHANGED pending
    ELSE /\ pc' = [pc EXCEPT ![t] = "gen_loop"]
         /\ stack' = [stack EXCEPT ![t] = <<>>]
         /\ hist' = [hist EXCEPT ![t] = h]
         /\ UNCHANGED <<result, woff2_data, pending>>

\* the guards a generate_font_by_id call holds from lines 141 and 147 until
\* it returns: `fonts` and `processors` are locals of the whole function
ByIdGuards == {"fonts", "processors"}

\* the read guards task t holds: `fonts` of generate_font without identity
\* (line 129, held over its loop) and of regenerate_font without identity
\* (line 225, held over its loop, nested calls and their file writes
\* included), and those of every generate_font_by_id that has passed its
\* lookup and awaits a fallback
GuardsHeld(t) ==
    (IF pc[t] = "gen_loop" \/ (pc[t] = "walk" /\ ~req[t].named) THEN {"fonts"} ELSE {})
    \cup (IF req[t].op = "regenerate_font" /\ ~regen[t].named
             /\ pc[t] \notin {"idle", "done"}
          THEN {"fonts"} ELSE {})
    \cup UNION {IF stack[t][i].fb >= 1 THEN ByIdGuards ELSE {} : i \in 1..Len(stack[t])}

\* lines 141-159: look the identity up, then try its files in order
ById_Files(t) ==
    /\ pc[t] = "walk"
    /\ stack[t] # <<>>
    /\ Top(stack[t]).fb = 0
    /\ LET font_id == Top(stack[t]).font_id IN
       IF font_id \notin DOMAIN fonts
       THEN ByIdReturns(t, FontNotFound(font_id), hist[t])
       ELSE LET woff2 == TryFiles(processors, font_id, fonts[font_id].files, 1,
                                  req[t].codepoints)
                asked == hist[t].consulted \cup
                         ConsultedKeys(processors, font_id, fonts[font_id].files, 1,
                                       req[t].codepoints) IN
            IF IsOk(woff2)
            THEN ByIdReturns(t, woff2, [hist[t] EXCEPT !.engine = TRUE,
                                                       !.guards = GuardsHeld(t) \cup ByIdGuards,
                                                       !.consulted = asked])
            ELSE /\ stack' = [stack EXCEPT ![t][Len(stack[t])].fb = 1]
                 /\ hist' = [hist EXCEPT ![t].consulted = asked]
                 /\ UNCHANGED <<pc, result, woff2_data, pending>>
    /\ UNCHANGED <<kdvars, regvars, envvars, jan, params, regen, disk, req, cache_filename, started>>

\* lines 162-169: recurse into the next fallback, or give up.  Each nested
\* call is polled from inside its caller's poll and nothing on the way
\* suspends, so the nesting is held on the thread's stack: a call that would
\* nest deeper than MaxDepth frames overflows it and the process is aborted.
ById_Fallback(t) ==
    /\ pc[t] = "walk"
    /\ stack[t] # <<>>
    /\ Top(stack[t]).fb >= 1
    /\ LET top == Top(stack[t])
           fallback == fonts[top.font_id].fallback IN
       IF top.fb <= Len(fallback)
       THEN IF Len(stack[t]) < MaxDepth
            THEN /\ stack' = [stack EXCEPT ![t] = Append(@, Frame(fallback[top.fb]))]
                 /\ hist' = [hist EXCEPT ![t].depth =
                                IF Len(stack[t]) + 1 > @ THEN Len(stack[t]) + 1 ELSE @]
                 /\ UNCHANGED <<pc, result, woff2_data, pending>>
            ELSE /\ pc' = [pc EXCEPT ![t] = "overflow"]
                 /\ UNCHANGED <<stack, hist, result, woff2_data, pending>>
       ELSE ByIdReturns(t, CharacterNotFound(FirstRequested(req[t].codepoints)), hist[t])
    /\ UNCHANGED <<kdvars, regvars, envvars, jan, params, regen, disk, req, cache_filename, started>>

\* lines 129-136: the loop over fonts.values() (HashMap order: any entry
\* not yet visited may come next), CharacterNotFound when none is left
GenFont_Loop(t) ==
    /\ pc[t] = "gen_loop"
    /\ IF pending[t] = {}
       THEN GenerateFontReturns(t, CharacterNotFound(FirstRequested(req[t].codepoints)), hist[t])
            /\ UNCHANGED pending
       ELSE \E id \in pending[t] :
               /\ pending' = [pending EXCEPT ![t] = @ \ {id}]
               /\ stack' = [stack EXCEPT ![t] = <<Frame(id)>>]
               /\ pc' = [pc EXCEPT ![t] = "walk"]
               /\ hist' = [hist EXCEPT ![t].depth = IF @ = 0 THEN 1 ELSE @]
               /\ UNCHANGED <<result, woff2_data>>
    /\ UNCHANGED <<kdvars, regvars, envvars, jan, params, regen, disk, req, cache_filename, started>>

---------------------------------------------------------------------------
(* service.rs: the public operations, as steps of a request task *)

\* a call starts: the task's locals are fresh
StartCall(t, op, named, font_id, codepoints) ==
    /\ pc[t] \in {"idle", "done"}
    /\ started < MaxRequests
    /\ started' = started + 1
    /\ req' = [req EXCEPT ![t] = [op |-> op, named |-> named, font_id |-> font_id,
                                  codepoints |-> codepoints]]
    /\ woff2_data' = [woff2_data EXCEPT ![t] = NoData]
    /\ regen' = [regen EXCEPT ![t] = NoRegen]

\* mutant: the named identity is not used, the registry is searched
BeginGenerateIgnoresName(t, named, font_id, codepoints, h) ==
    /\ hist' = [hist EXCEPT ![t] = [h EXCEPT !.depth = 0]]
    /\ pc' = [pc EXCEPT ![t] = "gen_loop"]
    /\ stack' = [stack EXCEPT ![t] = <<>>]
    /\ pending' = [pending EXCEPT ![t] = DOMAIN fonts]

\* generate_font lines 118-129 up to the first generate_font_by_id
BeginGenerate(t, named, font_id, codepoints, h) ==
    /\ hist' = [hist EXCEPT ![t] = [h EXCEPT !.depth = IF named THEN 1 ELSE 0]]
    /\ IF named
       THEN /\ pc' = [pc EXCEPT ![t] = "walk"]
            /\ stack' = [stack EXCEPT ![t] = <<Frame(font_id)>>]
            /\ pending' = [pending EXCEPT ![t] = {}]
       ELSE /\ pc' = [pc EXCEPT ![t] = "gen_loop"]
            /\ stack' = [stack EXCEPT ![t] = <<>>]
            /\ pending' = [pending EXCEPT ![t] = DOMAIN fonts]

\* pub async fn generate_font(font_id: Option<&str>, codepoints)
GenerateFont(t, fontIds, requests) ==
    \E named \in BOOLEAN, font_id \in fontIds \cup {""}, codepoints \in requests \cup {<<>>} :
        /\ named <=> font_id # ""
        /\ StartCall(t, "generate_font", named, font_id, codepoints)
        /\ cache_filename' = [cache_filename EXCEPT ![t] = <<>>]
        /\ IF codepoints = <<>>
           THEN /\ pc' = [pc EXCEPT ![t] = "done"]
                /\ result' = [result EXCEPT ![t] = CharacterNotFound(0)]
                /\ hist' = [hist EXCEPT ![t] = [NoHist EXCEPT !.gen = CharacterNotFound(0)]]
                /\ stack' = [stack EXCEPT ![t] = <<>>]
                /\ pending' = [pending EXCEPT ![t] = {}]
           ELSE /\ BeginGenerate(t, named, font_id, codepoints, NoHist)
                /\ result' = [result EXCEPT ![t] = NoValue]
        /\ UNCHANGED <<kdvars, regvars, envvars, jan, params, disk>>

\* a file under static_dir: the bytes it holds (data, complete = all of them
\* are there), the tasks holding it open for writing, whether a
\* get_cached_font write to it has completed (history), and the time of its
\* last modification
FileEntry(data, complete, writers, stored, mtime) ==
    [data |-> data, complete |-> complete, writers |-> writers, stored |-> stored,
     mtime |-> mtime]

Remove(m, k) == [x \in DOMAIN m \ {k} |-> m[x]]

\* tokio::fs::read of a file: what is there at the time of the read; a file
\* another task has truncated and not yet filled yields a proper prefix
ReadBytes(entry) ==
    IF entry.complete THEN entry.data ELSE [entry.data EXCEPT !.whole = FALSE]

\* pub async fn get_cached_font, lines 174-178: derive the key, test
\* cache_path.exists(); on a miss go straight to generate_font (line 189)
GetCachedFontCall(t, fontIds, requests) ==
    \E font_id \in fontIds, codepoints \in requests :
        LET filename == generate_cache_filename(codepoints)
            cache_path == CachePath(font_id, filename)
            exists == cache_path \in DOMAIN disk
            h == [NoHist EXCEPT !.hit = exists,
                                !.expect = IF exists /\ disk[cache_path].stored
                                           THEN disk[cache_path].data ELSE NoData]
        IN  /\ StartCall(t, "get_cached_font", TRUE, font_id, codepoints)
            /\ cache_filename' = [cache_filename EXCEPT ![t] = filename]
            /\ result' = [result EXCEPT ![t] = NoValue]
            /\ IF exists
               THEN /\ pc' = [pc EXCEPT ![t] = "gcf_read"]
                    /\ hist' = [hist EXCEPT ![t] = h]
                    /\ stack' = [stack EXCEPT ![t] = <<>>]
                    /\ pending' = [pending EXCEPT ![t] = {}]
               ELSE BeginGenerate(t, TRUE, font_id, codepoints, h)
            /\ UNCHANGED <<kdvars, regvars, envvars, jan, disk>>

\* a query of no request
NoParams == [handler |-> "none", id |-> "", chars |-> <<>>]

\* get_cached_font called with arguments that were not taken from a query
GetCachedFont(t, fontIds, requests) ==
    /\ GetCachedFontCall(t, fontIds, requests)
    /\ params' = [params EXCEPT ![t] = NoParams]

\* mutant: a failed read is returned to the caller as an I/O error
ReadFailedSurfaces(t, how) ==
    /\ pc' = [pc EXCEPT ![t] = "done"]
    /\ result' = [result EXCEPT ![t] = InternalError]
    /\ hist' = [hist EXCEPT ![t].read = how]
    /\ UNCHANGED <<stack, pending>>

\* line 184: the read failed; log, then fall through to line 189
ReadFailed(t, how) ==
    /\ BeginGenerate(t, TRUE, req[t].font_id, req[t].codepoints,
                     [hist[t] EXCEPT !.read = how])
    /\ UNCHANGED result

\* lines 179-185: tokio::fs::read(&cache_path).await: the bytes of the file,
\* or an error: the file is there no more ("gone"), or reading it fails
GcfRead(t) ==
    /\ pc[t] = "gcf_read"
    /\ IF TaskPath(t) \in DOMAIN disk
       THEN \/ /\ pc' = [pc EXCEPT ![t] = "done"]
               /\ result' = [result EXCEPT ![t] = Ok(ReadBytes(disk[TaskPath(t)]))]
               /\ hist' = [hist EXCEPT ![t].read = "ok"]
               /\ UNCHANGED <<stack, pending>>
            \/ ReadFailed(t, "failed")
       ELSE ReadFailed(t, "gone")
    /\ UNCHANGED <<kdvars, regvars, envvars, jan, params, regen, disk, req, cache_filename, woff2_data, started>>

\* lines 192-196: create_dir_all(parent); a failure is logged
GcfMkdir(t) ==
    /\ pc[t] = "gcf_mkdir"
    /\ \E ok \in BOOLEAN :
          hist' = [hist EXCEPT ![t].mkdir = IF ok THEN "ok" ELSE "failed"]
    /\ pc' = [pc EXCEPT ![t] = "gcf_open"]
    /\ UNCHANGED <<kdvars, regvars, envvars, jan, params, regen, disk, req, cache_filename, woff2_data, stack,
                   pending, result, started>>

\* mutant: a failed cache write fails the request
WriteFailedSurfaces(t) ==
    /\ pc' = [pc EXCEPT ![t] = "done"]
    /\ result' = [result EXCEPT ![t] = InternalError]
    /\ hist' = [hist EXCEPT ![t].write = "failed"]

\* lines 198-199, 204: the write failed; log, return the generated bytes
WriteFailed(t) ==
    /\ pc' = [pc EXCEPT ![t] = "done"]
    /\ result' = [result EXCEPT ![t] = Ok(woff2_data[t])]
    /\ hist' = [hist EXCEPT ![t].write = "failed"]

\* mutant: a write that fails unlinks the file it was writing
WriteAllFailedUnlinks(d, path, t) ==
    IF path \in DOMAIN d THEN Remove(d, path) ELSE d

\* tokio::fs::write whose write_all fails: the file stays as it is, with what
\* was written of it, and is closed
WriteAllFailed(d, path, t) ==
    IF path \in DOMAIN d /\ t \in d[path].writers
    THEN [d EXCEPT ![path].writers = @ \ {t}]
    ELSE d

\* line 198, first half of tokio::fs::write: the file is created, or
\* truncated if it is there (File::create), unless that fails, as it does
\* when the directory could not be made
GcfOpen(t) ==
    /\ pc[t] = "gcf_open"
    /\ \/ /\ hist[t].mkdir = "ok"
          /\ LET path == TaskPath(t)
                 old == IF path \in DOMAIN disk THEN disk[path]
                        ELSE FileEntry(woff2_data[t], FALSE, {}, FALSE, now)
             IN  disk' = Put(disk, path,
                             FileEntry(woff2_data[t], FALSE, old.writers \cup {t},
                                       old.stored, now))
          /\ pc' = [pc EXCEPT ![t] = "gcf_write"]
          /\ UNCHANGED <<result, hist>>
       \/ WriteFailed(t) /\ UNCHANGED disk
    /\ UNCHANGED <<kdvars, regvars, envvars, jan, params, regen, req, cache_filename, woff2_data, stack, pending, started>>

\* lines 198-204, second half of tokio::fs::write: write_all into the open
\* file (which the sweep may have unlinked meanwhile), then return the bytes
GcfWrite(t) ==
    /\ pc[t] = "gcf_write"
    /\ LET path == TaskPath(t)
           mine == path \in DOMAIN disk /\ t \in disk[path].writers
       IN  \/ /\ disk' = IF mine
                         THEN [disk EXCEPT ![path] =
                                  FileEntry(woff2_data[t], TRUE, @.writers \ {t}, TRUE, now)]
                         ELSE disk
              /\ pc' = [pc EXCEPT ![t] = "done"]
              /\ result' = [result EXCEPT ![t] = Ok(woff2_data[t])]
              /\ hist' = [hist EXCEPT ![t].write = "ok"]
           \/ /\ disk' = WriteAllFailed(disk, path, t)
              /\ WriteFailed(t)
    /\ UNCHANGED <<kdvars, regvars, envvars, jan, params, regen, req, cache_filename, woff2_data, stack, pending, started>>

---------------------------------------------------------------------------
(* service.rs: regenerate_font *)

\* lines 211-212: the loop over codepoints comes to codepoint and calls
\* generate_font(Some(id), &[codepoint]); cache_filename is what line 213
\* will derive from the same slice
RegenIter(t, id, codepoint, h) ==
    /\ req' = [req EXCEPT ![t] = [op |-> "regenerate_font", named |-> TRUE,
                                  font_id |-> id, codepoints |-> <<codepoint>>]]
    /\ cache_filename' = [cache_filename EXCEPT ![t] = generate_cache_filename(<<codepoint>>)]
    /\ woff2_data' = [woff2_data EXCEPT ![t] = NoData]
    /\ pc' = [pc EXCEPT ![t] = "walk"]
    /\ stack' = [stack EXCEPT ![t] = <<Frame(id)>>]
    /\ hist' = [hist EXCEPT ![t] = [h EXCEPT !.depth = 1, !.consulted = {}]]

\* pub async fn regenerate_font(font_id: Option<&str>, codepoints)
RegenerateFontCall(t, fontIds, requests) ==
    \E named \in BOOLEAN, font_id \in fontIds \cup {""}, codepoints \in requests :
        /\ named <=> font_id # ""
        /\ pc[t] \in {"idle", "done"}
        /\ started < MaxRequests
        /\ started' = started + 1
        /\ result' = [result EXCEPT ![t] = NoValue]
        /\ IF named
           THEN /\ regen' = [regen EXCEPT ![t] = [named |-> TRUE, font_id |-> font_id,
                                                  codepoints |-> codepoints, i |-> 1]]
                /\ RegenIter(t, font_id, codepoints[1], NoHist)
                /\ pending' = [pending EXCEPT ![t] = {}]
           ELSE /\ regen' = [regen EXCEPT ![t] = [named |-> FALSE, font_id |-> "",
                                                  codepoints |-> codepoints, i |-> 0]]
                /\ req' = [req EXCEPT ![t] = [op |-> "regenerate_font", named |-> TRUE,
                                              font_id |-> "", codepoints |-> <<>>]]
                /\ pc' = [pc EXCEPT ![t] = "rg_fonts"]
                /\ pending' = [pending EXCEPT ![t] = DOMAIN fonts]
                /\ cache_filename' = [cache_filename EXCEPT ![t] = <<>>]
                /\ woff2_data' = [woff2_data EXCEPT ![t] = NoData]
                /\ stack' = [stack EXCEPT ![t] = <<>>]
                /\ hist' = [hist EXCEPT ![t] = NoHist]
        /\ UNCHANGED <<kdvars, regvars, envvars, jan, disk>>

\* regenerate_font called with arguments that were not taken from a query
RegenerateFont(t, fontIds, requests) ==
    /\ RegenerateFontCall(t, fontIds, requests)
    /\ params' = [params EXCEPT ![t] = NoParams]

\* lines 225-234: the loop over fonts.keys() (HashMap order), each key a
\* regenerate_font(Some(font_id), codepoints); Ok(()) when none is left
RgFonts(t) ==
    /\ pc[t] = "rg_fonts"
    /\ IF pending[t] = {}
       THEN /\ pc' = [pc EXCEPT ![t] = "done"]
            /\ result' = [result EXCEPT ![t] = OkUnit]
            /\ UNCHANGED <<pending, regen, req, cache_filename, woff2_data, stack, hist>>
       ELSE \E id \in pending[t] :
               /\ pending' = [pending EXCEPT ![t] = @ \ {id}]
               /\ regen' = [regen EXCEPT ![t].i = 1]
               /\ RegenIter(t, id, regen[t].codepoints[1],
                            [hist[t] EXCEPT !.attempts = Append(@, id)])
               /\ UNCHANGED result
    /\ UNCHANGED <<kdvars, regvars, envvars, jan, params, disk, started>>

\* lines 216-218: create_dir_all(parent).await?
RgMkdir(t) ==
    /\ pc[t] = "rg_mkdir"
    /\ \/ /\ pc' = [pc EXCEPT ![t] = "rg_open"]
          /\ hist' = [hist EXCEPT ![t].mkdir = "ok"]
          /\ UNCHANGED result
       \/ RegenReturns(t, IoError, [hist[t] EXCEPT !.mkdir = "failed"], disk)
    /\ UNCHANGED <<kdvars, regvars, envvars, jan, params, regen, disk, req, cache_filename,
                   woff2_data, stack, pending, started>>

\* line 220, first half of tokio::fs::write(..).await?: create or truncate
RgOpen(t) ==
    /\ pc[t] = "rg_open"
    /\ \/ /\ LET path == TaskPath(t)
                 old == IF path \in DOMAIN disk THEN disk[path]
                        ELSE FileEntry(woff2_data[t], FALSE, {}, FALSE, now)
             IN  disk' = Put(disk, path,
                             FileEntry(woff2_data[t], FALSE, old.writers \cup {t},
                                       old.stored, now))
          /\ pc' = [pc EXCEPT ![t] = "rg_write"]
          /\ UNCHANGED <<result, hist>>
       \/ /\ RegenReturns(t, IoError, [hist[t] EXCEPT !.write = "failed"], disk)
          /\ UNCHANGED disk
    /\ UNCHANGED <<kdvars, regvars, envvars, jan, params, regen, req, cache_filename, woff2_data,
                   stack, pending, started>>

\* lines 220-222, second half of tokio::fs::write, then the next code point
\* of the loop, or Ok(()) after the last (line 234)
RgWrite(t) ==
    /\ pc[t] = "rg_write"
    /\ LET path == TaskPath(t)
           mine == path \in DOMAIN disk /\ t \in disk[path].writers
           written == IF mine
                      THEN [disk EXCEPT ![path] =
                               FileEntry(woff2_data[t], TRUE, @.writers \ {t}, TRUE, now)]
                      ELSE disk
           h == [hist[t] EXCEPT !.write = "ok"]
       IN  \/ /\ disk' = written
              /\ IF regen[t].i < Len(regen[t].codepoints)
                 THEN /\ regen' = [regen EXCEPT ![t].i = @ + 1]
                      /\ RegenIter(t, req[t].font_id, regen[t].codepoints[regen[t].i + 1], h)
                      /\ UNCHANGED result
                 ELSE /\ RegenReturns(t, OkUnit, h, written)
                      /\ UNCHANGED <<regen, req, cache_filename, woff2_data, stack>>
           \/ /\ disk' = WriteAllFailed(disk, path, t)
              /\ RegenReturns(t, IoError, [hist[t] EXCEPT !.write = "failed"], disk)
              /\ UNCHANGED <<regen, req, cache_filename, woff2_data, stack>>
    /\ UNCHANGED <<kdvars, regvars, envvars, jan, params, pending, started>>

---------------------------------------------------------------------------
(* handlers.rs: get_font and generate_font *)

\* the handler of task t returns Err(error) before it has called the service
Rejected(t, handler, id, chars, error) ==
    /\ pc[t] \in {"idle", "done"}
    /\ started < MaxRequests
    /\ started' = started + 1
    /\ params' = [params EXCEPT ![t] = [handler |-> handler, id |-> id, chars |-> chars]]
    /\ pc' = [pc EXCEPT ![t] = "done"]
    /\ result' = [result EXCEPT ![t] = error]
    /\ req' = [req EXCEPT ![t] = NoReq]
    /\ regen' = [regen EXCEPT ![t] = NoRegen]
    /\ hist' = [hist EXCEPT ![t] = NoHist]
    /\ cache_filename' = [cache_filename EXCEPT ![t] = <<>>]
    /\ woff2_data' = [woff2_data EXCEPT ![t] = NoData]
    /\ stack' = [stack EXCEPT ![t] = <<>>]
    /\ pending' = [pending EXCEPT ![t] = {}]
    /\ UNCHANGED <<kdvars, regvars, envvars, jan, disk>>

\* GET /api/v1/font?id=..&char=.. : lines 36-43
GetFont(t, fontIds, queries) ==
    /\ pc[t] \in {"idle", "done"}
    /\ started < MaxApiRequests
    /\ \E id \in fontIds, chars \in queries :
        LET codepoints == parse_codepoints(chars) IN
        IF ~IsOk(codepoints)
        THEN Rejected(t, "get_font", id, chars, ConfigError("format"))
        ELSE IF codepoints.data = <<>>
        THEN Rejected(t, "get_font", id, chars, ConfigError("empty"))
        ELSE /\ GetCachedFontCall(t, {id}, {codepoints.data})
             /\ params' = [params EXCEPT ![t] =
                               [handler |-> "get_font", id |-> id, chars |-> chars]]

\* POST /api/v1/generate?char=.. with or without id ("" is None): lines 60-69
HandleGenerateFont(t, fontIds, queries) ==
    /\ pc[t] \in {"idle", "done"}
    /\ started < MaxApiRequests
    /\ \E id \in fontIds \cup {""}, chars \in queries :
        LET codepoints == parse_codepoints(chars) IN
        IF ~IsOk(codepoints)
        THEN Rejected(t, "generate_font", id, chars, ConfigError("format"))
        ELSE IF codepoints.data = <<>>
        THEN Rejected(t, "generate_font", id, chars, ConfigError("empty"))
        ELSE /\ RegenerateFontCall(t, {id} \ {""}, {codepoints.data})
             /\ regen'[t].font_id = id
             /\ params' = [params EXCEPT ![t] =
                               [handler |-> "generate_font", id |-> id, chars |-> chars]]

---------------------------------------------------------------------------
(* service.rs: FontService::new with load_fonts, and list_fonts *)

\* FontService::new, lines 38-47: both maps start empty, load_fonts fills
\* them under their write guards and returns Ok(()) (line 97) whatever the
\* descriptors were
LoadFonts ==
    /\ service = NoValue
    /\ fonts' = LoadConfigs(fonts, tree.dirs)
    /\ processors' = LoadProcessors(processors, tree.dirs, tree.faces)
    /\ service' = OkUnit
    /\ UNCHANGED <<kdvars, envvars, jan, disk, taskvars, started>>

\* struct FontInfo, of the fields the model follows
FontInfo(config) == [id |-> config.id, fallback |-> config.fallback]

\* the orders in which a HashMap with the keys of S may be iterated
Orderings(S) ==
    {order \in [1..Cardinality(S) -> S] :
        \A i, j \in 1..Cardinality(S) : order[i] = order[j] => i = j}

\* pub async fn list_fonts: fonts.values() mapped to FontInfo
ListFonts(t) ==
    /\ service = OkUnit
    /\ StartCall(t, "list_fonts", FALSE, "", <<>>)
    /\ \E order \in Orderings(DOMAIN fonts) :
          result' = [result EXCEPT ![t] =
                        Ok([i \in 1..Len(order) |-> FontInfo(fonts[order[i]])])]
    /\ pc' = [pc EXCEPT ![t] = "done"]
    /\ cache_filename' = [cache_filename EXCEPT ![t] = <<>>]
    /\ stack' = [stack EXCEPT ![t] = <<>>]
    /\ pending' = [pending EXCEPT ![t] = {}]
    /\ hist' = [hist EXCEPT ![t] = NoHist]
    /\ UNCHANGED <<kdvars, regvars, envvars, jan, params, disk>>

---------------------------------------------------------------------------
(* service.rs start_cleanup_task / utils.rs cleanup_expired_cache, as the  *)
(* request tasks see it: at any time a file in some font's cache/          *)
(* directory may have expired and be removed.                              *)

S_cache_dir == <<"c", "a", "c", "h", "e">>

\* path.join("cache") of a directory of static_dir, and a file in it
InCacheDir(path) == Len(path) = 3 /\ path[2] = S_cache_dir

JanitorRemove ==
    /\ \E path \in DOMAIN disk :
          /\ InCacheDir(path)
          /\ disk' = Remove(disk, path)
          /\ hist' = [t \in Tasks |->
                        IF pc[t] # "done" /\ req[t].op = "get_cached_font" /\ TaskPath(t) = path
                        THEN [hist[t] EXCEPT !.expect = NoData]
                        ELSE hist[t]]
    /\ UNCHANGED <<kdvars, regvars, envvars, jan, params, regen, pc, req, cache_filename, woff2_data, stack,
                   pending, result, started>>

---------------------------------------------------------------------------
(* service.rs start_cleanup_task and utils.rs cleanup_expired_cache, step   *)
(* by step.  The clock is read in steps of a day; a sweep takes no time.   *)

CacheCleanupDays == 7
DaySecs == 24 * 3600

\* the service starts eight days after the oldest file of static_dir was
\* written
StartTime == 8 * DaySecs

\* is_file_expired(file_path, days) for a file modified at mtime, the clock
\* reading clock: metadata() or modified() may fail, and elapsed() fails for
\* a modification time ahead of the clock; then the file counts as expired
is_file_expired(mtime, clock, days, metadata_ok) ==
    IF metadata_ok /\ mtime <= clock
    THEN clock - mtime > days * 24 * 3600
    ELSE TRUE

\* the names read_dir(&static_dir) yields
StaticEntries == {path[1] : path \in DOMAIN disk}

\* path.is_dir() of static_dir/name
IsDir(name) == \E path \in DOMAIN disk : Len(path) > 1 /\ path[1] = name

\* the files read_dir(cache_dir) yields for static_dir/name/cache
CacheEntries(name) == {path \in DOMAIN disk : InCacheDir(path) /\ path[1] = name}

\* the loop of line 253 is left: the sweep is over until the next tick
SweepEnds(j) == [j EXCEPT !.pc = "sleep", !.dirs = {}, !.files = {}, !.touched = FALSE]

\* lines 246-252: interval.tick() completes, read_dir(&static_dir)
JanWake ==
    /\ jan.pc = "sleep"
    /\ now >= jan.next_tick
    /\ LET j == [jan EXCEPT !.next_tick = now + DaySecs,
                            !.round = @ + 1,
                            !.at = now,
                            !.removed = {},
                            !.errors = FALSE,
                            !.unreadable = {},
                            !.unremoved = {},
                            !.quiet = ~jan.touched,
                            !.prev = [at |-> jan.at, errors |-> jan.errors,
                                      cleaned |-> jan.removed # {}]]
       IN  \/ jan' = [j EXCEPT !.pc = "dirs", !.dirs = StaticEntries]
           \/ jan' = SweepEnds([j EXCEPT !.errors = TRUE, !.unreadable = {<<>>}])
    /\ UNCHANGED <<kdvars, regvars, envvars, disk, taskvars, started>>

\* lines 253-269: entries.next_entry(): an Err or None leaves the loop; a
\* directory that has a cache directory is given to cleanup_expired_cache,
\* whose read_dir(cache_dir)? (utils.rs 49-50) may fail
JanNextEntry ==
    /\ jan.pc = "dirs"
    /\ \/ /\ jan.dirs = {}
          /\ jan' = SweepEnds(jan)
       \/ \E name \in jan.dirs :
             \/ jan' = SweepEnds([jan EXCEPT !.errors = TRUE,
                                             !.unreadable = @ \cup {<<name>>}])
             \/ /\ ~(IsDir(name) /\ CacheEntries(name) # {})
                /\ jan' = [jan EXCEPT !.dirs = @ \ {name}]
             \/ /\ IsDir(name) /\ CacheEntries(name) # {}
                /\ \/ jan' = [jan EXCEPT !.dirs = @ \ {name}, !.pc = "files",
                                          !.files = CacheEntries(name)]
                   \/ jan' = [jan EXCEPT !.dirs = @ \ {name}, !.errors = TRUE,
                                          !.unreadable = @ \cup {<<name, S_cache_dir>>}]
    /\ UNCHANGED <<kdvars, regvars, envvars, disk, taskvars, started>>

\* mutant: cleanup_expired_cache returns after the first file it removed
RestAfterFirstRemoval(files, path, was_removed) ==
    IF was_removed THEN {} ELSE files \ {path}

\* the entries the loop of utils.rs line 50 has left after path
RestAfter(files, path, was_removed) == files \ {path}

\* utils.rs 50-63, one entry of the cache directory: `entry?` returns the
\* Err of a failing entry; an expired file is removed, if remove_file
\* succeeds; after the last entry Ok(cleaned_count) is returned
JanFile ==
    /\ jan.pc = "files"
    /\ \/ /\ jan.files = {}
          /\ jan' = [jan EXCEPT !.pc = "dirs"]
          /\ UNCHANGED disk
       \/ \E path \in jan.files :
             \/ /\ jan' = [jan EXCEPT !.pc = "dirs", !.files = {}, !.errors = TRUE,
                                       !.unreadable = @ \cup {path}]
                /\ UNCHANGED disk
             \/ \E metadata_ok \in BOOLEAN :
                   LET expired == /\ path \in DOMAIN disk
                                  /\ is_file_expired(disk[path].mtime, now,
                                                      CacheCleanupDays, metadata_ok)
                       j == [jan EXCEPT !.errors = @ \/ ~metadata_ok]
                   IN  IF expired
                       THEN \/ /\ disk' = Remove(disk, path)
                               /\ jan' = [j EXCEPT
                                     !.files = RestAfter(jan.files, path, TRUE),
                                     !.removed = @ \cup {[path |-> path,
                                                          mtime |-> disk[path].mtime]}]
                            \/ /\ jan' = [j EXCEPT
                                     !.files = RestAfter(jan.files, path, FALSE),
                                     !.errors = TRUE,
                                     !.unremoved = @ \cup {path}]
                               /\ UNCHANGED disk
                       ELSE /\ jan' = [j EXCEPT !.files = RestAfter(jan.files, path, FALSE)]
                            /\ UNCHANGED disk
    /\ UNCHANGED <<kdvars, regvars, envvars, taskvars, started>>

\* a day passes while the cleanup task sleeps
Tick ==
    /\ jan.pc = "sleep"
    /\ now < StartTime + MaxDays * DaySecs
    /\ now' = now + DaySecs
    /\ UNCHANGED <<kdvars, regvars, tree, jan, disk, taskvars, started>>

\* the bytes of an artifact some request has cached
SomeArtifact == [file |-> "a/R.ttf", glyphs |-> {1}, container |-> "woff2", whole |-> TRUE]

\* the files of static_dir the sweeps are run over: for font "a" one stored
\* flat and two in its cache directory, for font "b" one in its cache
\* directory
SweepPaths ==
    {CachePath("a", generate_cache_filename(<<1>>)),
     CachePath("a", generate_cache_filename(<<1, 2>>)),
     CachePath("a", generate_cache_filename(<<2, 3>>)),
     CachePath("b", generate_cache_filename(<<1, 2>>))}

\* a request (get_cached_font line 198, regenerate_font line 220) writes an
\* artifact: the file is created or overwritten and its mtime is the clock's
ArtifactWritten ==
    /\ jan.pc = "sleep"
    /\ ~jan.touched
    /\ \E path \in SweepPaths :
          disk' = Put(disk, path, FileEntry(SomeArtifact, TRUE, {}, TRUE, now))
    /\ jan' = [jan EXCEPT !.touched = TRUE, !.quiet = FALSE]
    /\ UNCHANGED <<kdvars, regvars, envvars, taskvars, started>>

---------------------------------------------------------------------------
(* Registries: what load_fonts finds under data_dir/fonts.  A registry is  *)
(* the font directories' configs in WalkDir order and, for each font file  *)
(* that exists and parses, the code points it has glyphs for.              *)

File_R == FontFile("R.ttf", "R")
File_B == FontFile("B.ttf", "B")

FacePaths == {FontPath("a", "R.ttf"), FontPath("a", "B.ttf"), FontPath("b", "R.ttf")}

PartialFns(D, R) == UNION {[S -> R] : S \in SUBSET D}

\* font "a" has two files and font "b" one; "c" is named as a fallback but
\* has no directory; the fallback lists include a self-loop and a two-cycle
WalkRegistries ==
    {[dirs |-> <<save_to_dir(FontConfig("a", <<File_R, File_B>>, fa)),
                 save_to_dir(FontConfig("b", <<File_R>>, fb))>>,
      faces |-> faces] :
        fa \in {<<>>, <<"a">>, <<"b">>, <<"c", "b">>},
        fb \in {<<>>, <<"a">>, <<"c">>},
        faces \in PartialFns(FacePaths, SUBSET {1, 2})}

\* the registries of the cache service runs: "a" covers nothing itself and
\* falls back to "b", which covers all; "a" covers a part and "b" the rest;
\* "a" covers a part and falls back to an identity that is not registered
ServiceRegistries ==
    {[dirs |-> <<save_to_dir(FontConfig("a", <<File_R>>, <<"b">>)),
                save_to_dir(FontConfig("b", <<File_R>>, <<>>))>>,
      faces |-> (FontPath("a", "R.ttf") :> {} @@ FontPath("b", "R.ttf") :> {1, 2})],
     [dirs |-> <<save_to_dir(FontConfig("a", <<File_R>>, <<"b">>)),
                save_to_dir(FontConfig("b", <<File_R>>, <<>>))>>,
      faces |-> (FontPath("a", "R.ttf") :> {1} @@ FontPath("b", "R.ttf") :> {2})],
     [dirs |-> <<save_to_dir(FontConfig("a", <<File_R>>, <<"c">>)),
                save_to_dir(FontConfig("b", <<File_R>>, <<>>))>>,
      faces |-> (FontPath("a", "R.ttf") :> {2} @@ FontPath("b", "R.ttf") :> {1})]}

\* what a font directory may hold for a descriptor: none, one that cannot
\* be read, one that is no JSON, a JSON object without its "id" or without
\* its "files", or a FontConfig saved there (of identity "a" or "b", the
\* latter falling back to "a")
BadDescriptors ==
    {NoFile, NoAccess, Content(NotJson),
     Content(JsonObject(Remove(to_string_pretty(FontConfig("a", <<File_R>>, <<>>)).fields, "id"))),
     Content(JsonObject(Remove(to_string_pretty(FontConfig("b", <<File_R>>, <<>>)).fields, "files")))}

GoodDescriptors ==
    {save_to_dir(FontConfig("a", <<File_R>>, <<>>)).descriptor,
     save_to_dir(FontConfig("b", <<File_R>>, <<"a">>)).descriptor}

DirNames == <<"a", "b", "x", "y", "z">>

\* the trees load_fonts is run on: up to MaxDirs directories, in WalkDir
\* order, with any of the descriptors; the font file of a/ exists and
\* parses, no other does
LoadTrees ==
    {[dirs |-> [i \in 1..n |-> DirEntry(DirNames[i], descriptors[i])],
      faces |-> (FontPath("a", "R.ttf") :> {1})] :
        n \in 0..MaxDirs, descriptors \in [1..MaxDirs -> BadDescriptors \cup GoodDescriptors]}

\* the `char` parameters of the requests: every string of up to MaxChars of
\* these characters, and those of the unit test of parse_codepoints
QueryChars == {"1", ",", " ", "x"}
TestQueries ==
    {<<"1", ",", "2">>, <<"2", ",", " ", "1">>, <<"1", ",", "x">>, <<"1", ",", ",", "2">>,
     <<"+", "1">>, <<"+">>, <<"1", "+">>,
     <<"4", "0", "3", "3", "9">>,
     <<"4", "0", "3", "3", "9", ",", " ", "4", "0", "3", "4", "0">>,
     <<"0", "0", "0", "0", "0", "0", "0", "0", "0", "0", "7">>,
     <<"4", "2", "9", "4", "9", "6", "7", "2", "9", "6">>}
ApiQueries == UNION {[1..n -> QueryChars] : n \in 0..MaxChars} \cup TestQueries
ApiFontIds == {"a"}

RequestFontIds == {"a", "b", "c"}
WalkRequests == {<<1>>, <<2>>, <<1, 2>>, <<2, 1>>}
ServiceFontIds == {"a"}
ServiceRequests == {<<1>>, <<1, 2>>, <<2, 1>>}
RegenFontIds == {"a"}
RegenRequests == {<<1>>, <<1, 2>>}
RegenReadRequests == {<<1>>}
FrameFontIds == {"a"}
FrameRegenRequests == {<<1>>}
FrameReadRequests == {<<1, 2>>}
FrameGenerateRequests == {<<2>>}

\* FontService::new: both maps as load_fonts leaves them
Loaded(registry) ==
    /\ service = OkUnit
    /\ fonts = LoadConfigs(EmptyMap, registry.dirs)
    /\ processors = LoadProcessors(EmptyMap, registry.dirs, registry.faces)

TasksIdle ==
    /\ pc = [t \in Tasks |-> "idle"]
    /\ req = [t \in Tasks |-> NoReq]
    /\ cache_filename = [t \in Tasks |-> <<>>]
    /\ woff2_data = [t \in Tasks |-> NoData]
    /\ stack = [t \in Tasks |-> <<>>]
    /\ pending = [t \in Tasks |-> {}]
    /\ result = [t \in Tasks |-> NoValue]
    /\ hist = [t \in Tasks |-> NoHist]
    /\ regen = [t \in Tasks |-> NoRegen]
    /\ params = [t \in Tasks |-> NoParams]
    /\ started = 0

\* the cleanup task before its first interval.tick(), which completes at once
NoJan ==
    [pc |-> "sleep",        \* sleep | dirs (loop of line 253) | files (loop of utils.rs 50)
     next_tick |-> 0,       \* when interval.tick() completes next
     dirs |-> {},           \* entries of static_dir the sweep has still to come to
     files |-> {},          \* entries of the cache directory it has still to come to
     round |-> 0,           \* sweeps begun
     at |-> 0,              \* when the sweep began
     removed |-> {},        \* files the sweep removed, with their mtime (history)
     errors |-> FALSE,      \* an I/O operation of the sweep failed (history)
     unreadable |-> {},     \* directories and entries the sweep could not read (history)
     unremoved |-> {},      \* files whose removal failed in the sweep (history)
     touched |-> FALSE,     \* a file was written since the last sweep ended (history)
     quiet |-> FALSE,       \* none was between the sweep before and this one (history)
     prev |-> [at |-> 0, errors |-> FALSE, cleaned |-> FALSE]]   \* the sweep before (history)

EmptyTree == [dirs |-> <<>>, faces |-> EmptyMap]

---------------------------------------------------------------------------
(* Specifications *)

\* the key deriver applied to one request
InitKey ==
    /\ kd_codepoints \in KeyRequests
    /\ kd_filename = <<>>
    /\ fonts = EmptyMap
    /\ processors = EmptyMap
    /\ service = OkUnit
    /\ tree = EmptyTree
    /\ now = 0
    /\ jan = NoJan
    /\ disk = EmptyMap
    /\ TasksIdle

NextKey == DeriveKey /\ UNCHANGED <<regvars, envvars, jan, disk, taskvars, started>>

SpecKey == InitKey /\ [][NextKey]_vars

\* generate_font calls of one task, over the registries of WalkRegistries
InitWalk ==
    /\ kd_codepoints = <<>>
    /\ kd_filename = <<>>
    /\ \E registry \in WalkRegistries : tree = registry /\ Loaded(registry)
    /\ now = 0
    /\ jan = NoJan
    /\ disk = EmptyMap
    /\ TasksIdle

NextWalk ==
    \/ GenerateFont("t1", RequestFontIds, WalkRequests)
    \/ ById_Files("t1")
    \/ ById_Fallback("t1")
    \/ GenFont_Loop("t1")

SpecWalk == InitWalk /\ [][NextWalk]_vars

\* the service: request tasks, file I/O that may fail, the sweep
Init ==
    /\ kd_codepoints = <<>>
    /\ kd_filename = <<>>
    /\ \E registry \in ServiceRegistries : tree = registry /\ Loaded(registry)
    /\ now = 0
    /\ jan = NoJan
    /\ disk = EmptyMap
    /\ TasksIdle

Next ==
    \/ \E t \in Tasks :
          \/ GetCachedFont(t, ServiceFontIds, ServiceRequests)
          \/ GcfRead(t)
          \/ ById_Files(t)
          \/ ById_Fallback(t)
          \/ GcfMkdir(t)
          \/ GcfOpen(t)
          \/ GcfWrite(t)
    \/ JanitorRemove

Spec == Init /\ [][Next]_vars

\* FontService::new on the trees of LoadTrees, then list_fonts calls
InitLoad ==
    /\ kd_codepoints = <<>>
    /\ kd_filename = <<>>
    /\ tree \in LoadTrees
    /\ fonts = EmptyMap
    /\ processors = EmptyMap
    /\ service = NoValue
    /\ now = 0
    /\ jan = NoJan
    /\ disk = EmptyMap
    /\ TasksIdle

NextLoad ==
    \/ LoadFonts
    \/ ListFonts("t1")

SpecLoad == InitLoad /\ [][NextLoad]_vars

\* the HTTP handlers in front of the service; static_dir is empty, or holds
\* the artifact of code point 1 that an earlier run of the service stored
InitApi ==
    /\ kd_codepoints = <<>>
    /\ kd_filename = <<>>
    /\ \E registry \in ServiceRegistries : tree = registry /\ Loaded(registry)
    /\ now = 0
    /\ jan = NoJan
    /\ disk \in {EmptyMap,
                 CachePath("a", generate_cache_filename(<<1>>))
                    :> FileEntry(SomeArtifact, TRUE, {}, TRUE, 0)}
    /\ TasksIdle

NextApi ==
    \/ GetFont("t1", ApiFontIds, ApiQueries)
    \/ HandleGenerateFont("t1", ApiFontIds, ApiQueries)
    \/ \E t \in Tasks :
          \/ GcfRead(t)
          \/ ById_Files(t)
          \/ ById_Fallback(t)
          \/ GcfMkdir(t)
          \/ GcfOpen(t)
          \/ GcfWrite(t)
          \/ RgFonts(t)
          \/ RgMkdir(t)
          \/ RgOpen(t)
          \/ RgWrite(t)

SpecApi == InitApi /\ [][NextApi]_vars

\* the service with a task that calls regenerate_font beside one that calls
\* get_cached_font
NextRegen ==
    \/ RegenerateFont("t1", RegenFontIds, RegenRequests)
    \/ GetCachedFont("t2", RegenFontIds, RegenReadRequests)
    \/ \E t \in Tasks :
          \/ RgFonts(t)
          \/ RgMkdir(t)
          \/ RgOpen(t)
          \/ RgWrite(t)
          \/ GcfRead(t)
          \/ ById_Files(t)
          \/ ById_Fallback(t)
          \/ GcfMkdir(t)
          \/ GcfOpen(t)
          \/ GcfWrite(t)

SpecRegen == Init /\ [][NextRegen]_vars

\* a step of the request path of task t: "t1" calls regenerate_font, "t2"
\* get_cached_font and generate_font
RequestPath(t) ==
    \/ t = "t1" /\ RegenerateFont(t, FrameFontIds, FrameRegenRequests)
    \/ t = "t2" /\ GetCachedFont(t, FrameFontIds, FrameReadRequests)
    \/ t = "t2" /\ GenerateFont(t, FrameFontIds, FrameGenerateRequests)
    \/ RgFonts(t)
    \/ RgMkdir(t)
    \/ RgOpen(t)
    \/ RgWrite(t)
    \/ GcfRead(t)
    \/ ById_Files(t)
    \/ ById_Fallback(t)
    \/ GenFont_Loop(t)
    \/ GcfMkdir(t)
    \/ GcfOpen(t)
    \/ GcfWrite(t)

\* the three operations of the request path beside the sweep
NextFrame ==
    \/ \E t \in Tasks : RequestPath(t)
    \/ JanitorRemove

SpecFrame == Init /\ [][NextFrame]_vars

\* mtimes of the files found at the start: eight days old, and seven days
\* old to the second
StartMtimes == {0, DaySecs}

\* the cleanup task over a static_dir that holds artifacts of earlier runs
InitJanitor ==
    /\ kd_codepoints = <<>>
    /\ kd_filename = <<>>
    /\ fonts = EmptyMap
    /\ processors = EmptyMap
    /\ service = OkUnit
    /\ tree = EmptyTree
    /\ now = StartTime
    /\ jan = NoJan
    /\ \E mtimes \in PartialFns(SweepPaths, StartMtimes) :
          disk = [path \in DOMAIN mtimes |->
                     FileEntry(SomeArtifact, TRUE, {}, TRUE, mtimes[path])]
    /\ TasksIdle

NextJanitor ==
    \/ JanWake
    \/ JanNextEntry
    \/ JanFile
    \/ Tick
    \/ ArtifactWritten

SpecJanitor == InitJanitor /\ [][NextJanitor]_vars

---------------------------------------------------------------------------
(* Properties of the cache key deriver (SpecKey) *)

\* every rearrangement of a request
Rearrangements(s) ==
    {[i \in 1..Len(s) |-> s[f[i]]] : f \in Permutations(1..Len(s))}

Derived == kd_filename # <<>>

\* C1: the key of a request is the key of every rearrangement of it: the
\* order in which the code points are given does not matter.
C1_OrderIndependent ==
    Derived =>
        \A other \in Rearrangements(kd_codepoints) :
            generate_cache_filename(other) = kd_filename

\* the unit test's request, given out of order, with its key
C1_Witness ==
    /\ kd_codepoints = <<40341, 40339, 40340>>
    /\ kd_filename = S_cache \o <<"4", "0", "3", "3", "9", ",", "4", "0", "3", "4", "0", ",",
                                  "4", "0", "3", "4", "1">> \o S_woff2

Count(s, x) == Cardinality({i \in 1..Len(s) : s[i] = x})

\* the same values, each as often: what "the sorted value sequences are
\* equal" says without sorting anything
SameValues(s1, s2) ==
    /\ Len(s1) = Len(s2)
    /\ \A x \in SeqToSet(s1) \cup SeqToSet(s2) : Count(s1, x) = Count(s2, x)

\* C2: two requests whose values differ, be it only in how often a value is
\* repeated, never get the same key.
C2_CollisionFree ==
    Derived =>
        \A other \in KeyRequests :
            generate_cache_filename(other) = kd_filename => SameValues(other, kd_codepoints)

\* <<1, 12>> has its key; <<11, 2>>, whose digits read the same in a row, and
\* <<1, 1>> and <<12>> have other keys, and the rearrangement <<12, 1>> the same
C2_Witness ==
    /\ kd_codepoints = <<1, 12>>
    /\ Derived
    /\ generate_cache_filename(<<11, 2>>) # kd_filename
    /\ generate_cache_filename(<<1, 1>>) # kd_filename
    /\ generate_cache_filename(<<12>>) # kd_filename
    /\ generate_cache_filename(<<12, 1>>) = kd_filename

DigitValue(c) ==
    CASE c = "0" -> 0 [] c = "1" -> 1 [] c = "2" -> 2 [] c = "3" -> 3
      [] c = "4" -> 4 [] c = "5" -> 5 [] c = "6" -> 6 [] c = "7" -> 7
      [] c = "8" -> 8 [] c = "9" -> 9

IsDigit(c) == c \in {"0", "1", "2", "3", "4", "5", "6", "7", "8", "9"}

\* the decimal numeral of a number: digits only, no leading zero
IsNumeral(str) ==
    /\ str # <<>>
    /\ \A i \in 1..Len(str) : IsDigit(str[i])
    /\ Len(str) > 1 => str[1] # "0"

RECURSIVE NumeralValue(_)
NumeralValue(str) ==
    IF str = <<>> THEN 0
    ELSE 10 * NumeralValue(SubSeq(str, 1, Len(str) - 1)) + DigitValue(str[Len(str)])

RECURSIVE SplitAt(_, _, _)
\* the pieces of str between occurrences of the character sep
SplitAt(str, sep, acc) ==
    IF str = <<>> THEN <<acc>>
    ELSE IF Head(str) = sep THEN <<acc>> \o SplitAt(Tail(str), sep, <<>>)
    ELSE SplitAt(Tail(str), sep, Append(acc, Head(str)))

HasPrefix(str, pre) == Len(str) >= Len(pre) /\ SubSeq(str, 1, Len(pre)) = pre
HasSuffix(str, suf) ==
    Len(str) >= Len(suf) /\ SubSeq(str, Len(str) - Len(suf) + 1, Len(str)) = suf

IsAscending(s) == \A i \in 1..(Len(s) - 1) : s[i] <= s[i + 1]

\* str reads as the numerals of values, ascending, separated by commas
ReadsAsAscending(str, values) ==
    LET parts == SplitAt(str, ",", <<>>) IN
    /\ \A i \in 1..Len(parts) : IsNumeral(parts[i])
    /\ LET read == [i \in 1..Len(parts) |-> NumeralValue(parts[i])] IN
       IsAscending(read) /\ SameValues(read, values)

\* C3: the key of a one-code-point request reads as "<v>.woff2" and names a
\* file directly in the font's directory; the key of a longer request reads
\* as "cache/", the values ascending and comma-separated, ".woff2", and
\* names a file in the font's cache directory.
C3_KeyShape ==
    Derived =>
        LET n == Len(kd_filename)
            path == CachePath("f", kd_filename) IN
        IF Len(kd_codepoints) = 1
        THEN /\ HasSuffix(kd_filename, S_woff2)
             /\ LET stem == SubSeq(kd_filename, 1, n - Len(S_woff2)) IN
                IsNumeral(stem) /\ NumeralValue(stem) = kd_codepoints[1]
             /\ path = <<"f", kd_filename>>
        ELSE /\ HasPrefix(kd_filename, S_cache)
             /\ HasSuffix(kd_filename, S_woff2)
             /\ ReadsAsAscending(SubSeq(kd_filename, Len(S_cache) + 1, n - Len(S_woff2)),
                                 kd_codepoints)
             /\ path = <<"f", S_cache_dir, SubSeq(kd_filename, Len(S_cache) + 1, n)>>

\* the unit test's single code point with its key
C3_Witness ==
    /\ kd_codepoints = <<40339>>
    /\ kd_filename = <<"4", "0", "3", "3", "9">> \o S_woff2

---------------------------------------------------------------------------
(* Properties of the walker and of the cache service *)

\* a loaded file of the registered font f has a glyph for one of codepoints
FilesCovering(f, codepoints) ==
    IF f \notin DOMAIN fonts THEN {}
    ELSE {i \in 1..Len(fonts[f].files) :
            LET key == ProcessorKey(f, fonts[f].files[i].font_family) IN
            /\ key \in DOMAIN processors
            /\ \E j \in 1..Len(codepoints) : contains_char(processors[key], codepoints[j])}

FontCovers(f, codepoints) == FilesCovering(f, codepoints) # {}

RECURSIVE ReachableFrom(_)
\* the identities reachable from those of S through declared fallback lists
ReachableFrom(S) ==
    LET more == S \cup UNION {SeqToSet(fonts[f].fallback) : f \in S \cap DOMAIN fonts} IN
    IF more = S THEN S ELSE ReachableFrom(more)

FilePathsOf(f) ==
    IF f \notin DOMAIN fonts THEN {}
    ELSE {FontPath(f, fonts[f].files[i].path) : i \in 1..Len(fonts[f].files)}

Finished(t, op) == pc[t] = "done" /\ req[t].op = op

\* C4: a get_cached_font that starts while the artifact a get_cached_font
\* wrote for the same font and key is stored, and whose read does not fail,
\* returns that artifact's bytes and does not invoke the subsetting engine,
\* unless the artifact is deleted meanwhile.
C4_RepeatServedFromCache ==
    \A t \in Tasks :
        (Finished(t, "get_cached_font") /\ hist[t].expect # NoData /\ hist[t].read = "ok")
            => /\ result[t] = Ok(hist[t].expect)
               /\ ~hist[t].engine

\* C5: where font A has no file covering X, lists exactly B as fallback and a
\* file of B covers X, get_cached_font(A, <<X>>) returns Ok with the subset
\* {X} of a file of B that covers X.
C5_FallbackCorrectness ==
    \A t \in Tasks :
        LET A == req[t].font_id
            codepoints == req[t].codepoints IN
        (/\ Finished(t, "get_cached_font")
         /\ Len(codepoints) = 1
         /\ A \in DOMAIN fonts
         /\ ~FontCovers(A, codepoints)
         /\ Len(fonts[A].fallback) = 1
         /\ FontCovers(fonts[A].fallback[1], codepoints))
            => LET B == fonts[A].fallback[1] IN
               /\ IsOk(result[t])
               /\ result[t].data.whole
               /\ result[t].data.glyphs = {codepoints[1]}
               /\ result[t].data.file \in
                     {FontPath(B, fonts[B].files[i].path) : i \in FilesCovering(B, codepoints)}

\* no registered font has a loaded file covering any of codepoints
NoCoverage(codepoints) == \A f \in DOMAIN fonts : ~FontCovers(f, codepoints)

\* C6: a generate_font call with no identity, for code points no registered
\* font covers, ends in no other way than by returning CharacterNotFound; and
\* one that returned CharacterNotFound for a request that is not empty found
\* no registered font to cover any of the code points.
C6_ExhaustiveFailure ==
    \A t \in Tasks :
        (req[t].op = "generate_font" /\ ~req[t].named /\ req[t].codepoints # <<>>)
            => /\ (NoCoverage(req[t].codepoints) /\ pc[t] \in {"done", "overflow"})
                     => (pc[t] = "done" /\ result[t].kind = "CharacterNotFound")
               /\ (pc[t] = "done" /\ result[t].kind = "CharacterNotFound")
                     => NoCoverage(req[t].codepoints)

\* C7: generation against an identity nests a bounded number of
\* generate_font_by_id calls, whatever the fallback lists: never more than one
\* per registered identity and one for a fallback that is not registered, and
\* it never exhausts the stack.  (A call nested deeper has an identity twice
\* on its stack; the same call with the same arguments nests the same way
\* again, without end.)
C7_BoundedRecursion ==
    \A t \in Tasks :
        /\ hist[t].depth <= Cardinality(DOMAIN fonts) + 1
        /\ pc[t] # "overflow"

\* C8: a generate_font call that names identity F returns no artifact but one
\* subset from a file of F or of an identity reachable from F through
\* fallback lists, and none at all when no file of those covers a requested
\* code point, whatever the other registered fonts cover.
C8_NamedIdentityConfines ==
    \A t \in Tasks :
        (Finished(t, "generate_font") /\ req[t].named)
            => LET within == ReachableFrom({req[t].font_id}) IN
               /\ IsOk(result[t]) =>
                     result[t].data.file \in UNION {FilePathsOf(f) : f \in within}
               /\ (\A f \in within : ~FontCovers(f, req[t].codepoints)) => ~IsOk(result[t])

\* a call naming "a" failed with a code point that "b", out of reach, covers
C8_Witness ==
    /\ Finished("t1", "generate_font")
    /\ req["t1"].named
    /\ req["t1"].font_id = "a"
    /\ "b" \notin ReachableFrom({"a"})
    /\ FontCovers("b", req["t1"].codepoints)
    /\ result["t1"].kind = "CharacterNotFound"

\* C9: a get_cached_font whose read of the artifact failed went on to
\* generate_font, and returns what that returned: its bytes, or its error.
C9_ReadFailureIsMiss ==
    \A t \in Tasks :
        (Finished(t, "get_cached_font") /\ hist[t].read \in {"failed", "gone"})
            => /\ hist[t].gen # NoValue
               /\ result[t] = hist[t].gen

\* two calls found their artifact to exist; the read of one failed, the
\* artifact of the other was swept away before its read; both returned the
\* generated bytes
C9_Witness ==
    \E t, u \in Tasks :
        /\ Finished(t, "get_cached_font") /\ Finished(u, "get_cached_font")
        /\ hist[t].hit /\ hist[t].read = "failed"
        /\ hist[u].hit /\ hist[u].read = "gone"
        /\ IsOk(result[t]) /\ result[t] = hist[t].gen
        /\ IsOk(result[u]) /\ result[u] = hist[u].gen

\* C10: a get_cached_font whose generate_font succeeded returns Ok with the
\* generated bytes, whatever became of create_dir_all and of the write.
C10_WriteBestEffort ==
    \A t \in Tasks :
        (Finished(t, "get_cached_font") /\ IsOk(hist[t].gen))
            => result[t] = Ok(hist[t].gen.data)

\* directory creation and write both failed and the bytes were returned
C10_Witness ==
    \E t \in Tasks :
        /\ Finished(t, "get_cached_font")
        /\ hist[t].mkdir = "failed"
        /\ hist[t].write = "failed"
        /\ IsOk(hist[t].gen)
        /\ result[t] = Ok(hist[t].gen.data)

---------------------------------------------------------------------------
(* Properties of regenerate_font (SpecRegen) *)

\* the least member of a set of numbers that is not empty
Least(S) == CHOOSE x \in S : \A y \in S : x <= y

RECURSIVE ExpectedArtifact(_, _, _), ExpectedOfFallbacks(_, _, _, _)
\* the artifact that generation against identity f is to give for
\* codepoints, NoData where it is to fail: the subset, of exactly the
\* requested code points it covers, of the first file of f in declared order
\* that covers any; if no file of f does, what the first fallback of f in
\* declared order gives that gives one.  depth bounds the nesting followed.
ExpectedArtifact(f, codepoints, depth) ==
    IF f \notin DOMAIN fonts \/ depth = 0 THEN NoData
    ELSE IF FontCovers(f, codepoints)
    THEN LET i == Least(FilesCovering(f, codepoints))
             face == processors[ProcessorKey(f, fonts[f].files[i].font_family)]
         IN  [file |-> FontPath(f, fonts[f].files[i].path),
              glyphs |-> {cp \in SeqToSet(codepoints) : cp \in face.cmap},
              container |-> "woff2", whole |-> TRUE]
    ELSE ExpectedOfFallbacks(f, 1, codepoints, depth)

ExpectedOfFallbacks(f, k, codepoints, depth) ==
    IF k > Len(fonts[f].fallback) THEN NoData
    ELSE LET sub == ExpectedArtifact(fonts[f].fallback[k], codepoints, depth - 1) IN
         IF sub # NoData THEN sub
         ELSE ExpectedOfFallbacks(f, k + 1, codepoints, depth)

\* C11: when regenerate_font(Some(F), codepoints) returns Ok, the file at
\* the cache key of codepoints under F holds the artifact generation against
\* F gives for codepoints, be they one or several.
C11_RegenerateOverwrites ==
    \A t \in Tasks :
        (Finished(t, "regenerate_font") /\ regen[t].named /\ IsOk(result[t]))
            => hist[t].at_key = ExpectedArtifact(regen[t].font_id, regen[t].codepoints,
                                                 MaxDepth)

---------------------------------------------------------------------------
(* Properties of the cleanup task (SpecJanitor) *)

\* a file of age seconds is older than the retention window
OlderThanWindow(age) == age > CacheCleanupDays * DaySecs

\* a sweep has come to its end and the clock still reads what it read then
SweepDone == jan.pc = "sleep" /\ jan.round >= 1 /\ now = jan.at

\* C13: after a sweep that met no I/O error no artifact of any font, flat
\* in the font's directory or in its cache directory, is older than the
\* retention window, and every file the sweep removed was older than it.
C13_JanitorReclaimsStale ==
    (SweepDone /\ ~jan.errors)
        => /\ \A path \in DOMAIN disk :
                 Len(path) >= 2 => ~OlderThanWindow(now - disk[path].mtime)
           /\ \A r \in jan.removed : OlderThanWindow(jan.at - r.mtime)

Unreadable(path) ==
    \/ <<>> \in jan.unreadable
    \/ <<path[1]>> \in jan.unreadable
    \/ <<path[1], path[2]>> \in jan.unreadable
    \/ path \in jan.unreadable

\* C15: whatever errors a sweep met, it has removed every expired file of
\* every cache directory, but those whose own removal failed and those in a
\* directory, or at an entry, that could not be read.
C15_JanitorErrorIsolation ==
    SweepDone
        => \A path \in DOMAIN disk :
              (InCacheDir(path) /\ OlderThanWindow(jan.at - disk[path].mtime))
                  => (path \in jan.unremoved \/ Unreadable(path))


---------------------------------------------------------------------------
(* Properties of concurrent requests for one key (Spec) *)

\* C16: whatever the interleaving of get_cached_font calls for one font and
\* one key, every call that returns Ok returns the whole artifact, any two
\* of them return the same bytes, and once no call is running the file
\* stored at the key, if there is one and no write of theirs failed, holds
\* those bytes, all of them.
C16_ConcurrentSameKey ==
    \A t \in Tasks :
        (Finished(t, "get_cached_font") /\ IsOk(result[t]))
            => /\ result[t].data.whole
               /\ \A u \in Tasks :
                     (/\ Finished(u, "get_cached_font") /\ IsOk(result[u])
                      /\ req[u].font_id = req[t].font_id
                      /\ cache_filename[u] = cache_filename[t])
                         => result[u] = result[t]
               /\ ((\A u \in Tasks : pc[u] \in {"idle", "done"} /\ hist[u].write # "failed")
                      /\ TaskPath(t) \in DOMAIN disk)
                     => Stored(disk, TaskPath(t)) = result[t].data

---------------------------------------------------------------------------
(* Properties of the registry locks *)

\* the task is at a filesystem read or write of get_cached_font or
\* regenerate_font
AtFileIo(t) == pc[t] \in {"gcf_read", "gcf_open", "gcf_write", "rg_open", "rg_write"}

\* C17: no task invokes generate_woff2 while it holds a guard of the fonts
\* or of the processors lock, and no task is at a filesystem read or write
\* while it holds one.
C17_NoLockAcrossBlocking ==
    \A t \in Tasks :
        /\ hist[t].engine => hist[t].guards = {}
        /\ AtFileIo(t) => GuardsHeld(t) = {}

---------------------------------------------------------------------------
(* Properties of the loader (SpecLoad) *)

\* the directories of the tree whose descriptor loads
ValidDirs == {i \in DOMAIN tree.dirs : IsOk(load_from_dir(tree.dirs[i]))}

\* the identities their descriptors give
ValidIds == {load_from_dir(tree.dirs[i]).data.id : i \in ValidDirs}

\* C18: whatever descriptors are missing, unreadable or malformed,
\* FontService::new succeeds; the identity of every directory with a valid
\* descriptor is registered, with the config of the last directory that
\* gives it; and list_fonts returns the identities of the valid descriptors,
\* each once and no other.
C18_PartialRegistryResilience ==
    service # NoValue
        => /\ service = OkUnit
           /\ \A i \in ValidDirs :
                 LET config == load_from_dir(tree.dirs[i]).data IN
                 /\ config.id \in DOMAIN fonts
                 /\ (\A j \in ValidDirs : j > i => load_from_dir(tree.dirs[j]).data.id # config.id)
                       => fonts[config.id] = config
           /\ \A t \in Tasks :
                 Finished(t, "list_fonts")
                     => /\ IsOk(result[t])
                        /\ {result[t].data[k].id : k \in DOMAIN result[t].data} = ValidIds
                        /\ Len(result[t].data) = Cardinality(ValidIds)

\* a tree whose first directory has no loadable descriptor and whose later
\* ones have valid descriptors of two identities: list_fonts returned both
C18_Witness ==
    /\ Len(tree.dirs) = MaxDirs
    /\ 1 \notin ValidDirs
    /\ ValidDirs = 2..MaxDirs
    /\ Cardinality(ValidIds) = 2
    /\ Finished("t1", "list_fonts")
    /\ Len(result["t1"].data) = 2

---------------------------------------------------------------------------
(* Properties of the handlers (SpecApi) *)

\* item reads as a number: digits, after at most one '+', with blanks
\* before and after only
Numeric(item) ==
    \E i, j \in 1..Len(item) :
        /\ i <= j
        /\ \A k \in 1..(i - 1) : item[k] = " "
        /\ \A k \in (j + 1)..Len(item) : item[k] = " "
        /\ \A k \in (i + 1)..j : IsDigit(item[k])
        /\ IsDigit(item[i]) \/ (item[i] = "+" /\ i < j)

\* the code-point list of a query is empty, or one of its items is no number
EmptyOrMalformed(chars) ==
    \/ chars = <<>>
    \/ LET items == SplitAt(chars, ",", <<>>) IN
       \E i \in DOMAIN items : ~Numeric(items[i])

\* what a task that has called nothing of the service shows
NoServiceCall(t) ==
    /\ req[t] = NoReq
    /\ regen[t] = NoRegen
    /\ hist[t] = NoHist
    /\ stack[t] = <<>>
    /\ woff2_data[t] = NoData

\* C19: a get_font or generate_font request whose code-point list is empty
\* or has an item that is no number has failed with ConfigError, the
\* invalid-input error of the handlers, and its task has made no cache
\* lookup, generation or cache write for it.
C19_RejectedAtBoundary ==
    \A t \in Tasks :
        (params[t].handler # "none" /\ EmptyOrMalformed(params[t].chars))
            => /\ pc[t] = "done"
               /\ result[t].kind = "ConfigError"
               /\ NoServiceCall(t)

\* a get_font request with the items "1" and "x" was rejected, its task
\* having called nothing, though the artifact of code point 1 is stored
C19_Witness ==
    /\ params["t1"].handler = "get_font"
    /\ params["t1"].chars = <<"1", ",", "x">>
    /\ pc["t1"] = "done"
    /\ result["t1"].kind = "ConfigError"
    /\ NoServiceCall("t1")
    /\ CachePath("a", generate_cache_filename(<<1>>)) \in DOMAIN disk

---------------------------------------------------------------------------
(* Properties of the order of files and fallbacks (SpecWalk) *)

\* C20: a generate_font call that names identity F and has returned gives
\* the subset, of exactly the requested code points it covers, of the first
\* file of F in declared order that covers any of them; the fallbacks of F
\* count, in declared order and the first that gives an artifact, only where
\* no file of F covers any; and it fails where these give none.
C20_FileAndFallbackOrder ==
    \A t \in Tasks :
        (Finished(t, "generate_font") /\ req[t].named)
            => LET expected == ExpectedArtifact(req[t].font_id, req[t].codepoints, MaxDepth) IN
               IF expected = NoData
               THEN ~IsOk(result[t])
               ELSE result[t] = Ok(expected)

\* the first file of "a" covers code point 2 only and its second file both
\* 1 and 2: the call for <<1, 2>> returned the subset {2} of the first
C20_Witness ==
    /\ Finished("t1", "generate_font")
    /\ req["t1"].named /\ req["t1"].font_id = "a"
    /\ req["t1"].codepoints = <<1, 2>>
    /\ FilesCovering("a", <<1>>) = {2}
    /\ FilesCovering("a", <<2>>) = {1, 2}
    /\ IsOk(result["t1"])
    /\ result["t1"].data.file = FontPath("a", "R.ttf")
    /\ result["t1"].data.glyphs = {2}

---------------------------------------------------------------------------
(* Properties of the diagnostic of a failed generation (SpecWalk) *)

\* the positions of the request whose code point none of the processors
\* that were asked contains
Unresolved(t) ==
    {i \in 1..Len(req[t].codepoints) :
        \A key \in hist[t].consulted :
            ~contains_char(processors[key], req[t].codepoints[i])}

\* C21: a generate_font call for a non-empty request that has returned
\* CharacterNotFound carries the first code point, in the order of the
\* request, that no font file it consulted resolved.
C21_FirstUnresolvedDiagnostic ==
    \A t \in Tasks :
        (/\ Finished(t, "generate_font")
         /\ req[t].codepoints # <<>>
         /\ result[t].kind = "CharacterNotFound")
            => /\ Unresolved(t) # {}
               /\ result[t].cp = req[t].codepoints[Least(Unresolved(t))]

\* the call for <<2, 1>> that names "a" asked both files of "a", neither
\* contains 2 or 1, and it returned CharacterNotFound(2)
C21_Witness ==
    /\ Finished("t1", "generate_font")
    /\ req["t1"].named /\ req["t1"].font_id = "a"
    /\ req["t1"].codepoints = <<2, 1>>
    /\ Cardinality(hist["t1"].consulted) >= 2
    /\ result["t1"] = CharacterNotFound(2)

---------------------------------------------------------------------------
(* Properties of who removes artifacts (SpecFrame) *)

\* what a step of task t may do to the files: none is removed, none but the
\* one at the key of t is changed or made, and generate_font touches none
LeavesOthers(t) ==
    /\ \A path \in DOMAIN disk :
          /\ path \in DOMAIN disk'
          /\ path # TaskPath(t) => disk'[path] = disk[path]
    /\ \A path \in DOMAIN disk' \ DOMAIN disk : path = TaskPath(t)
    /\ req[t].op = "generate_font" => disk' = disk

\* C22: no step of get_cached_font, generate_font or regenerate_font removes
\* an artifact, and each leaves every artifact but the one at the key it
\* writes as it was; the set of stored paths loses a path only in a step of
\* the sweep.
C22_OnlyJanitorDeletes ==
    [][/\ \A t \in Tasks : RequestPath(t) => LeavesOthers(t)
       /\ (DOMAIN disk \ DOMAIN disk' # {}) => JanitorRemove]_vars

\* regenerate_font has stored a/1.woff2 and get_cached_font has written
\* a/cache/1-2.woff2; the sweep has removed the latter and the former is
\* there as it was stored
C22_Witness ==
    /\ Finished("t1", "regenerate_font") /\ result["t1"] = OkUnit
    /\ Finished("t2", "get_cached_font") /\ hist["t2"].write = "ok"
    /\ req["t2"].codepoints = <<1, 2>>
    /\ InCacheDir(TaskPath("t2"))
    /\ TaskPath("t2") \notin DOMAIN disk
    /\ CachePath("a", generate_cache_filename(<<1>>)) \in DOMAIN disk
    /\ disk[CachePath("a", generate_cache_filename(<<1>>))].complete
====
